---- MODULE Spec2Model ----
(***************************************************************************)
(* The onboarding backend of server.py: two MongoDB collections            *)
(* (onboarding_sessions, chat_messages) and the FastAPI handlers that read *)
(* and write them.  A handler is a coroutine: every `await` of a database  *)
(* call or of asyncio.sleep is a point where another request may run, so a *)
(* handler is one action per database call, each slot of Req being one     *)
(* request in flight.                                                      *)
(*                                                                         *)
(* Left out: created_at / updated_at (no handler reads them), the          *)
(* free-text "message" field of the JSON responses.                        *)
(***************************************************************************)
EXTENDS Integers, Sequences, FiniteSets, TLC

\* ---------------------------------------------------------------- bounds
\* Sessions that start_onboarding may create.
MaxSessions == 2
\* Documents the chat_messages collection may hold.
MaxChat == 3
\* Requests in flight at once under SpecConc (Spec runs one at a time).
NumReq == 2
\* The same two limits while requests interleave (SpecConc).
MaxConcSessions == 1
MaxConcChat == 3
\* The same two limits for the client that sends accepted input (SpecClient).
MaxClientSessions == 1
MaxClientChat == 4
\* Sessions of the client that follows the flow to its end (SpecLive).
MaxLiveSessions == 1
\* Messages stored beyond HistoryLimit + 1 while the history is read (SpecHistory).
MaxHistoryExtra == 3

\* ---------------------------------------------------------------- state
VARIABLES
  onboarding_sessions,  \* db.onboarding_sessions
  chat_messages,        \* db.chat_messages
  pc,                   \* per request slot: the await the handler is at
  request,              \* per request slot: the request body / path parameter
  local,                \* per request slot: the handler's local `session`
  entry,                \* per request slot: the two collections when the call arrived
  response              \* per request slot: what the handler returned or raised

vars == << onboarding_sessions, chat_messages, pc, request, local, entry, response >>

db == << onboarding_sessions, chat_messages >>

\* ---------------------------------------------------------------- values
\* Python's None for the Optional[str] fields.
None == "None"

\* A session id no start_onboarding ever hands out (uuid4 values are not
\* guessable, so a client knows the ids it was given and ids of no session).
UnknownId == MaxSessions + MaxConcSessions + MaxClientSessions + 1

\* The order of the steps: the keys of the responses table, top to bottom.
Steps ==
  << "welcome", "phone_verification", "phone_otp_verification",
     "email_verification", "email_otp_verification", "pan_verification",
     "kyc_document", "face_verification", "additional_info", "esign",
     "completion" >>

StepIndex(step) == CHOOSE i \in 1..Len(Steps) : Steps[i] = step

\* A message body is a sequence of text fragments; Python's str + str is \o.
\* Each canned text is one fragment, named by its opening words.
get_ai_response(step) ==
  CASE step = "welcome"                -> << "Hi there! I'm Boardy" >>
    [] step = "phone_verification"     -> << "Great! Now I need to verify your mobile number" >>
    [] step = "phone_otp_verification" -> << "Perfect! I've sent a 6-digit OTP to your mobile number" >>
    [] step = "email_verification"     -> << "Excellent! Now let's verify your email address" >>
    [] step = "email_otp_verification" -> << "Great! I've sent a 6-digit OTP to your email address" >>
    [] step = "pan_verification"       -> << "Now let's start with your KYC verification" >>
    [] step = "kyc_document"           -> << "Excellent! Your PAN is verified" >>
    [] step = "face_verification"      -> << "Almost there! Now I need to capture your photo" >>
    [] step = "additional_info"        -> << "Great! Your identity is verified" >>
    [] step = "esign"                  -> << "Final step! Please review your application details" >>
    [] step = "completion"             -> << "Congratulations! Your account opening is complete!" >>
    [] OTHER                           -> << "I'm Boardy, and I'm here to help you" >>

\* Fault: the id default evaluated once (default= in place of
\* default_factory=), so that every session gets the same id.
OnboardingSession_shared_id(id) ==
  [ id                  |-> 1,
    customer_phone      |-> None,
    customer_email      |-> None,
    current_step        |-> "welcome",
    progress_percentage |-> 0,
    status              |-> "in_progress" ]

\* OnboardingSession(): the defaults of the pydantic model, with a fresh id.
OnboardingSession(id) ==
  [ id                  |-> id,
    customer_phone      |-> None,
    customer_email      |-> None,
    current_step        |-> "welcome",
    progress_percentage |-> 0,
    status              |-> "in_progress" ]

\* datetime.utcnow() as a logical clock: the server's clock is past every
\* time it has stamped, one tick per stored message.
utcnow == Len(chat_messages) + 1

\* ChatMessage(..., timestamp=...): the body of POST /chat is this model, so
\* a client may send the timestamp itself.
ChatMessageAt(session_id, message, sender, timestamp) ==
  [ session_id |-> session_id, message |-> message, sender |-> sender,
    timestamp |-> timestamp ]

\* timestamp: datetime = Field(default_factory=datetime.utcnow)
ChatMessage(session_id, message, sender) ==
  ChatMessageAt(session_id, message, sender, utcnow)

\* random.choice([True, True, True, False])
random_choice == << TRUE, TRUE, TRUE, FALSE >>

\* random.randint(85, 98)
random_randint == 85..98

\* ---------------------------------------------------------------- the store
\* A collection is the sequence of its documents in insertion order.
insert_one(collection, doc) == Append(collection, doc)

Matches(collection, id) == { i \in 1..Len(collection) : collection[i].id = id }

\* find_one({"id": id}): the first document with that id, or None (<< >>
\* stands for "no document", so that the result is always a sequence).
find_one(collection, id) ==
  IF Matches(collection, id) = {}
  THEN << >>
  ELSE << collection[CHOOSE i \in Matches(collection, id) :
                       \A j \in Matches(collection, id) : i <= j] >>

\* update_one({"id": id}, {"$set": set}) without upsert: the first matching
\* document gets the fields of `set`; no match, no change.
update_one(collection, id, set) ==
  IF Matches(collection, id) = {}
  THEN collection
  ELSE LET i == CHOOSE k \in Matches(collection, id) :
                  \A j \in Matches(collection, id) : k <= j
       IN  [ collection EXCEPT ![i] =
               [ f \in DOMAIN @ |-> IF f \in DOMAIN set THEN set[f] ELSE @[f] ] ]

\* .to_list(100)
HistoryLimit == 100

\* The order the server gives documents of equal sort key is not specified:
\* "natural" keeps them in insertion order, "reverse" in the opposite one.
TieOrders == { "natural", "reverse" }

\* .sort("timestamp", 1): ascending by timestamp.
sort(docs, tie) ==
  LET n == Len(docs)
      Before(i, j) ==
        \/ docs[i].timestamp < docs[j].timestamp
        \/ /\ docs[i].timestamp = docs[j].timestamp
           /\ IF tie = "natural" THEN i < j ELSE i > j
      rank == [ i \in 1..n |-> Cardinality({ j \in 1..n : Before(j, i) }) + 1 ]
  IN  [ k \in 1..n |-> docs[CHOOSE i \in 1..n : rank[i] = k] ]

\* find({"session_id": id}).sort("timestamp", 1).to_list(100)
find_messages(collection, id, tie) ==
  LET all == sort(SelectSeq(collection, LAMBDA m : m.session_id = id), tie)
  IN  IF Len(all) <= HistoryLimit THEN all ELSE SubSeq(all, 1, HistoryLimit)


Req == 1..NumReq

NoRequest == [ op |-> "none" ]
NoLocal == << >>
NoEntry == [ onboarding_sessions |-> << >>, chat_messages |-> << >> ]
NoResponse == [ status_code |-> 0 ]

\* ---------------------------------------------------------------- inputs
\* The ids a client can send: those start_onboarding returned, and a stray one.
ClientIds == { onboarding_sessions[i].id : i \in 1..Len(onboarding_sessions) } \cup { UnknownId }

Phones == { "9876543210" }
Emails == { "user@example.com" }
Otps == { "123456", "654321" }
VerificationTypes == { "phone", "email", "sms" }
DocumentTypes == { "pan", "aadhaar", "digilocker", "passport" }
\* A str as the sequence of its characters; << >> is None or "" (both falsy).
PanNumbers ==
  { << >>,
    << "A", "B", "C", "D", "E", "1", "2", "3", "4" >>,
    << "A", "B", "C", "D", "E", "1", "2", "3", "4", "F" >> }
UserTexts == { << "hello" >> }

VerificationRequest(op, session_id, phone, email, otp, verification_type) ==
  [ op |-> op, session_id |-> session_id, phone |-> phone, email |-> email,
    otp |-> otp, verification_type |-> verification_type ]

KYCDocumentRequest(session_id, document_type, pan_number) ==
  [ op |-> "verify_kyc_document", session_id |-> session_id,
    document_type |-> document_type, pan_number |-> pan_number ]

\* Every request a client may send in the current state.
Requests ==
  { [ op |-> "start_onboarding" ] }
  \cup { [ op |-> o, session_id |-> id ] :
           o \in { "get_session", "get_chat_history", "verify_biometric",
                   "submit_additional_info", "complete_esign" },
           id \in ClientIds }
  \cup { [ op |-> "chat", message |-> ChatMessage(id, t, "user") ] :
           id \in ClientIds, t \in UserTexts }
  \cup { VerificationRequest("verify_phone", id, p, None, None, None) :
           id \in ClientIds, p \in Phones }
  \cup { VerificationRequest("verify_email", id, None, e, None, None) :
           id \in ClientIds, e \in Emails }
  \cup { VerificationRequest("verify_otp", id, None, None, o, t) :
           id \in ClientIds, o \in Otps, t \in VerificationTypes }
  \cup { KYCDocumentRequest(id, "pan", n) : id \in ClientIds, n \in PanNumbers }
  \cup { KYCDocumentRequest(id, t, << >>) :
           id \in ClientIds, t \in DocumentTypes \ { "pan" } }

\* The endpoints that move a session along the steps.
TransitionOps ==
  { "verify_phone", "verify_otp", "verify_email", "verify_kyc_document",
    "verify_biometric", "submit_additional_info", "complete_esign" }

\* The session id a request names.
SessionIdOf(req) == IF req.op = "chat" THEN req.message.session_id ELSE req.session_id

\* ---------------------------------------------------------------- bounding
\* The documents a request at this point may still insert into chat_messages.
PendingInserts(r) ==
  CASE pc[r] \in { "sleep", "insert_message", "insert_session", "find_session",
                   "insert_ai_message" } -> 1
    [] pc[r] = "insert_user_message" -> 2
    [] OTHER -> 0

RECURSIVE SumPending(_)
SumPending(S) ==
  IF S = {} THEN 0
  ELSE LET r == CHOOSE x \in S : TRUE IN PendingInserts(r) + SumPending(S \ { r })

MayInsert(req) ==
  CASE req.op \in { "get_session", "get_chat_history" } -> 0
    [] req.op = "chat" -> 2
    [] OTHER -> 1

PendingSessions == Cardinality({ r \in Req : pc[r] = "insert_session" })

FirstAwait(req) ==
  CASE req.op = "start_onboarding" -> "insert_session"
    [] req.op = "get_session" -> "find_session"
    [] req.op = "get_chat_history" -> "find_messages"
    [] req.op = "chat" -> "insert_user_message"
    [] OTHER -> "sleep"

\* ---------------------------------------------------------------- plumbing
Ok(body) == [ status_code |-> 200, body |-> body ]
HTTPException(status_code, detail) == [ status_code |-> status_code, body |-> [ detail |-> detail ] ]

\* The handler returns (or raises): the response is ready.
Return(r, resp) ==
  /\ pc' = [ pc EXCEPT ![r] = "done" ]
  /\ response' = [ response EXCEPT ![r] = resp ]

Goto(r, label) ==
  /\ pc' = [ pc EXCEPT ![r] = label ]
  /\ UNCHANGED response

\* A response is written out as soon as its handler returns, and a cancelled
\* handler is torn down as soon as it is cancelled, before the event loop runs
\* any other handler.
Flushed == \A q \in Req : pc[q] \notin { "done", "cancelled" }

\* The event loop resumes request r, whose handler `op` waits at `label`.
At(r, op, label) == Flushed /\ pc[r] = label /\ request[r].op = op

Init ==
  /\ onboarding_sessions = << >>
  /\ chat_messages = << >>
  /\ pc = [ r \in Req |-> "idle" ]
  /\ request = [ r \in Req |-> NoRequest ]
  /\ local = [ r \in Req |-> NoLocal ]
  /\ entry = [ r \in Req |-> NoEntry ]
  /\ response = [ r \in Req |-> NoResponse ]

\* Fault: verify_phone stores the phone before its simulated delay.
Accept_write_first(r, requests, max_sessions, max_chat) ==
  /\ Flushed
  /\ pc[r] = "idle"
  /\ \E req \in requests :
       /\ Len(chat_messages) + SumPending(Req) + MayInsert(req) <= max_chat
       /\ req.op = "start_onboarding" =>
            Len(onboarding_sessions) + PendingSessions < max_sessions
       /\ request' = [ request EXCEPT ![r] = req ]
       /\ pc' = [ pc EXCEPT ![r] = FirstAwait(req) ]
       /\ onboarding_sessions' =
            IF req.op = "verify_phone"
            THEN update_one(onboarding_sessions, req.session_id,
                            [ customer_phone |-> req.phone ])
            ELSE onboarding_sessions
  /\ entry' = [ entry EXCEPT ![r] =
                  [ onboarding_sessions |-> onboarding_sessions,
                    chat_messages |-> chat_messages ] ]
  /\ UNCHANGED << chat_messages, local, response >>

\* A request arrives and its handler runs up to its first await, as long as
\* the collections stay within max_sessions and max_chat documents.
Accept(r, requests, max_sessions, max_chat) ==
  /\ Flushed
  /\ pc[r] = "idle"
  /\ \E req \in requests :
       /\ Len(chat_messages) + SumPending(Req) + MayInsert(req) <= max_chat
       /\ req.op = "start_onboarding" =>
            Len(onboarding_sessions) + PendingSessions < max_sessions
       /\ request' = [ request EXCEPT ![r] = req ]
       /\ pc' = [ pc EXCEPT ![r] = FirstAwait(req) ]
  /\ entry' = [ entry EXCEPT ![r] =
                  [ onboarding_sessions |-> onboarding_sessions,
                    chat_messages |-> chat_messages ] ]
  /\ UNCHANGED << db, local, response >>

Receive(r) == Accept(r, Requests, MaxSessions, MaxChat)

ReceiveConc(r) == Accept(r, Requests, MaxConcSessions, MaxConcChat)

\* The response leaves the server; the slot is free for the next request.
Respond(r) ==
  /\ pc[r] = "done"
  /\ pc' = [ pc EXCEPT ![r] = "idle" ]
  /\ request' = [ request EXCEPT ![r] = NoRequest ]
  /\ local' = [ local EXCEPT ![r] = NoLocal ]
  /\ entry' = [ entry EXCEPT ![r] = NoEntry ]
  /\ response' = [ response EXCEPT ![r] = NoResponse ]
  /\ UNCHANGED db


\* The caller goes away while the handler is in `await asyncio.sleep(...)` and
\* the handler's task is cancelled: CancelledError is raised at that await and
\* nothing after it runs.
Cancel(r) ==
  /\ Flushed
  /\ pc[r] = "sleep"
  /\ pc' = [ pc EXCEPT ![r] = "cancelled" ]
  /\ UNCHANGED << db, request, local, entry, response >>

\* The cancelled task is gone; the slot is free for the next request.
Discard(r) ==
  /\ pc[r] = "cancelled"
  /\ pc' = [ pc EXCEPT ![r] = "idle" ]
  /\ request' = [ request EXCEPT ![r] = NoRequest ]
  /\ local' = [ local EXCEPT ![r] = NoLocal ]
  /\ entry' = [ entry EXCEPT ![r] = NoEntry ]
  /\ UNCHANGED << db, response >>

\* ---------------------------------------------------------------- start_onboarding
\* session = OnboardingSession(); await db.onboarding_sessions.insert_one(session.dict())
\* The fresh uuid4 is the next unused number.
start_onboarding_insert_session(r) ==
  /\ At(r, "start_onboarding", "insert_session")
  /\ LET session == OnboardingSession(Len(onboarding_sessions) + 1)
     IN  /\ onboarding_sessions' = insert_one(onboarding_sessions, session)
         /\ local' = [ local EXCEPT ![r] = << session >> ]
  /\ Goto(r, "insert_message")
  /\ UNCHANGED << chat_messages, request, entry >>

\* initial_message = ChatMessage(...); await db.chat_messages.insert_one(...); return
start_onboarding_insert_message(r) ==
  /\ At(r, "start_onboarding", "insert_message")
  /\ LET session == local[r][1]
         initial_message == ChatMessage(session.id, get_ai_response("welcome"), "agent")
     IN  /\ chat_messages' = insert_one(chat_messages, initial_message)
         /\ Return(r, Ok([ session_id |-> session.id, message |-> initial_message.message ]))
  /\ UNCHANGED << onboarding_sessions, request, local, entry >>

\* ---------------------------------------------------------------- get_session
get_session(r) ==
  /\ At(r, "get_session", "find_session")
  /\ LET session == find_one(onboarding_sessions, request[r].session_id)
     IN  IF session = << >>
         THEN Return(r, HTTPException(404, "Session not found"))
         ELSE Return(r, Ok(session[1]))
  /\ UNCHANGED << db, request, local, entry >>

\* ---------------------------------------------------------------- chat
\* await db.chat_messages.insert_one(message.dict())
chat_insert_user_message(r) ==
  /\ At(r, "chat", "insert_user_message")
  /\ chat_messages' = insert_one(chat_messages, request[r].message)
  /\ Goto(r, "find_session")
  /\ UNCHANGED << onboarding_sessions, request, local, entry >>

\* session = await db.onboarding_sessions.find_one(...); if not session: raise 404
chat_find_session(r) ==
  /\ At(r, "chat", "find_session")
  /\ LET session == find_one(onboarding_sessions, request[r].message.session_id)
     IN  IF session = << >>
         THEN /\ Return(r, HTTPException(404, "Session not found"))
              /\ UNCHANGED local
         ELSE /\ Goto(r, "insert_ai_message")
              /\ local' = [ local EXCEPT ![r] = session ]
  /\ UNCHANGED << db, request, entry >>

\* Fault: the agent always answers with the welcome prompt.
chat_insert_ai_message_welcome(r) ==
  /\ At(r, "chat", "insert_ai_message")
  /\ LET ai_response == get_ai_response("welcome")
         ai_message == ChatMessage(request[r].message.session_id, ai_response, "agent")
     IN  /\ chat_messages' = insert_one(chat_messages, ai_message)
         /\ Return(r, Ok([ message |-> ai_response ]))
  /\ UNCHANGED << onboarding_sessions, request, local, entry >>

\* ai_response = get_ai_response(session["current_step"]); insert it; return
chat_insert_ai_message(r) ==
  /\ At(r, "chat", "insert_ai_message")
  /\ LET ai_response == get_ai_response(local[r][1].current_step)
         ai_message == ChatMessage(request[r].message.session_id, ai_response, "agent")
     IN  /\ chat_messages' = insert_one(chat_messages, ai_message)
         /\ Return(r, Ok([ message |-> ai_response ]))
  /\ UNCHANGED << onboarding_sessions, request, local, entry >>

\* ---------------------------------------------------------------- get_chat_history
get_chat_history(r) ==
  /\ At(r, "get_chat_history", "find_messages")
  /\ \E tie \in TieOrders :
       Return(r, Ok(find_messages(chat_messages, request[r].session_id, tie)))
  /\ UNCHANGED << db, request, local, entry >>

\* ---------------------------------------------------------------- transitions
\* What the transition handlers share: after the check, one update_one on the
\* session, then (next await) one insert_one of the agent's message.
Update(r, set) ==
  /\ onboarding_sessions' = update_one(onboarding_sessions, request[r].session_id, set)
  /\ Goto(r, "insert_message")
  /\ UNCHANGED << chat_messages, request, local, entry >>

Insert(r, message, body) ==
  /\ chat_messages' =
       insert_one(chat_messages, ChatMessage(request[r].session_id, message, "agent"))
  /\ Return(r, Ok(body))
  /\ UNCHANGED << onboarding_sessions, request, local, entry >>

\* return {"success": False, ...} before any database call
Fail(r) ==
  /\ Return(r, Ok([ success |-> FALSE ]))
  /\ UNCHANGED << db, request, local, entry >>

\* ---- verify_phone
\* Fault: starting the phone step again reopens the session.
verify_phone_set_reopen(req) ==
  [ customer_phone |-> req.phone,
    current_step |-> "phone_otp_verification",
    progress_percentage |-> 15,
    status |-> "in_progress" ]

verify_phone_set(req) ==
  [ customer_phone |-> req.phone,
    current_step |-> "phone_otp_verification",
    progress_percentage |-> 15 ]

\* Fault: the progress is incremented ($inc) instead of set.
verify_phone_update_inc(r) ==
  /\ At(r, "verify_phone", "sleep")
  /\ onboarding_sessions' =
       [ i \in DOMAIN onboarding_sessions |->
           IF onboarding_sessions[i].id = request[r].session_id
           THEN [ onboarding_sessions[i] EXCEPT
                    !.customer_phone = request[r].phone,
                    !.current_step = "phone_otp_verification",
                    !.progress_percentage = @ + 15 ]
           ELSE onboarding_sessions[i] ]
  /\ Goto(r, "insert_message")
  /\ UNCHANGED << chat_messages, request, local, entry >>

verify_phone_update(r) ==
  /\ At(r, "verify_phone", "sleep")
  /\ Update(r, verify_phone_set(request[r]))

verify_phone_message(req) == get_ai_response("phone_otp_verification")

verify_phone_insert(r) ==
  /\ At(r, "verify_phone", "insert_message")
  /\ Insert(r, verify_phone_message(request[r]), [ success |-> TRUE, otp |-> "123456" ])

\* ---- verify_otp
\* Fault: the targets of the two branches swapped.
verify_otp_set_swapped(req) ==
  IF req.verification_type = "phone"
  THEN [ current_step |-> "pan_verification", progress_percentage |-> 35 ]
  ELSE [ current_step |-> "email_verification", progress_percentage |-> 25 ]

verify_otp_set(req) ==
  IF req.verification_type = "phone"
  THEN [ current_step |-> "email_verification", progress_percentage |-> 25 ]
  ELSE [ current_step |-> "pan_verification", progress_percentage |-> 35 ]

\* Fault: the session is updated before the OTP is compared.
verify_otp_update_unchecked(r) ==
  /\ At(r, "verify_otp", "sleep")
  /\ LET req == request[r]
     IN  IF req.verification_type \in { "phone", "email" }
         THEN IF req.otp # (IF req.verification_type = "phone" THEN "123456" ELSE "654321")
              THEN /\ onboarding_sessions' =
                        update_one(onboarding_sessions, req.session_id, verify_otp_set(req))
                   /\ Return(r, Ok([ success |-> FALSE ]))
                   /\ UNCHANGED << chat_messages, request, local, entry >>
              ELSE Update(r, verify_otp_set(req))
         ELSE Fail(r)

\* Fault: a wrong OTP locks the session, and a locked session's OTP is refused.
verify_otp_update_lockout(r) ==
  /\ At(r, "verify_otp", "sleep")
  /\ LET req == request[r]
         expected == IF req.verification_type = "phone" THEN "123456" ELSE "654321"
         locked == \E i \in 1..Len(onboarding_sessions) :
                     /\ onboarding_sessions[i].id = req.session_id
                     /\ onboarding_sessions[i].status = "locked"
     IN  IF req.verification_type \notin { "phone", "email" } \/ locked
         THEN Fail(r)
         ELSE IF req.otp # expected
              THEN /\ onboarding_sessions' =
                        update_one(onboarding_sessions, req.session_id,
                                   [ status |-> "locked" ])
                   /\ Return(r, Ok([ success |-> FALSE ]))
                   /\ UNCHANGED << chat_messages, request, local, entry >>
              ELSE Update(r, verify_otp_set(req))

verify_otp_update(r) ==
  /\ At(r, "verify_otp", "sleep")
  /\ LET req == request[r]
     IN  IF req.verification_type = "phone"
         THEN IF req.otp # "123456" THEN Fail(r) ELSE Update(r, verify_otp_set(req))
         ELSE IF req.verification_type = "email"
              THEN IF req.otp # "654321" THEN Fail(r) ELSE Update(r, verify_otp_set(req))
              ELSE Fail(r)

verify_otp_message(req) ==
  IF req.verification_type = "phone"
  THEN get_ai_response("email_verification")
  ELSE << "Perfect! Email verified successfully!" >> \o get_ai_response("pan_verification")

verify_otp_insert(r) ==
  /\ At(r, "verify_otp", "insert_message")
  /\ Insert(r, verify_otp_message(request[r]), [ success |-> TRUE ])

\* ---- verify_email
\* Fault: the progress of the next handler pasted into this one.
verify_email_set_stale(req) ==
  [ customer_email |-> req.email,
    current_step |-> "email_otp_verification",
    progress_percentage |-> 35 ]

verify_email_set(req) ==
  [ customer_email |-> req.email,
    current_step |-> "email_otp_verification",
    progress_percentage |-> 30 ]

verify_email_update(r) ==
  /\ At(r, "verify_email", "sleep")
  /\ Update(r, verify_email_set(request[r]))

verify_email_message(req) == get_ai_response("email_otp_verification")

\* Fault: the agent's message is built but never inserted.
verify_email_insert_skipped(r) ==
  /\ At(r, "verify_email", "insert_message")
  /\ Return(r, Ok([ success |-> TRUE, otp |-> "654321" ]))
  /\ UNCHANGED << db, request, local, entry >>

verify_email_insert(r) ==
  /\ At(r, "verify_email", "insert_message")
  /\ Insert(r, verify_email_message(request[r]), [ success |-> TRUE, otp |-> "654321" ])

\* ---- verify_kyc_document
verify_kyc_document_set(req) ==
  IF req.document_type = "pan"
  THEN [ current_step |-> "kyc_document", progress_percentage |-> 45 ]
  ELSE [ current_step |-> "face_verification", progress_percentage |-> 60 ]

\* Fault: the PAN goes to the mock verification without the length check.
verify_kyc_document_update_nolen(r) ==
  /\ At(r, "verify_kyc_document", "sleep")
  /\ LET req == request[r]
     IN  IF req.document_type \in { "pan", "aadhaar", "digilocker" }
         THEN \E i \in DOMAIN random_choice :
                LET success == random_choice[i]
                IN  IF ~success THEN Fail(r) ELSE Update(r, verify_kyc_document_set(req))
         ELSE Fail(r)

verify_kyc_document_update(r) ==
  /\ At(r, "verify_kyc_document", "sleep")
  /\ LET req == request[r]
     IN  IF req.document_type = "pan"
         THEN IF req.pan_number = << >> \/ Len(req.pan_number) # 10
              THEN Fail(r)
              ELSE \E i \in DOMAIN random_choice :
                     LET success == random_choice[i]
                     IN  IF ~success THEN Fail(r) ELSE Update(r, verify_kyc_document_set(req))
         ELSE IF req.document_type \in { "aadhaar", "digilocker" }
              THEN \E i \in DOMAIN random_choice :
                     LET success == random_choice[i]
                     IN  IF ~success THEN Fail(r) ELSE Update(r, verify_kyc_document_set(req))
              ELSE Fail(r)

verify_kyc_document_message(req) ==
  IF req.document_type = "pan"
  THEN get_ai_response("kyc_document")
  ELSE get_ai_response("face_verification")

verify_kyc_document_insert(r) ==
  /\ At(r, "verify_kyc_document", "insert_message")
  /\ Insert(r, verify_kyc_document_message(request[r]), [ success |-> TRUE ])

\* ---- verify_biometric
verify_biometric_set(req) ==
  [ current_step |-> "additional_info", progress_percentage |-> 80 ]

\* Fault: a strict comparison with the threshold.
verify_biometric_update_strict(r) ==
  /\ At(r, "verify_biometric", "sleep")
  /\ \E match_score \in random_randint :
       LET success == match_score > 85
       IN  IF ~success THEN Fail(r) ELSE Update(r, verify_biometric_set(request[r]))

verify_biometric_update(r) ==
  /\ At(r, "verify_biometric", "sleep")
  /\ \E match_score \in random_randint :
       LET success == match_score >= 85
       IN  IF ~success THEN Fail(r) ELSE Update(r, verify_biometric_set(request[r]))

\* Fault: a misspelt key, so that the table's fallback text is sent.
verify_biometric_message_typo(req) == get_ai_response("additional-info")

verify_biometric_message(req) == get_ai_response("additional_info")

verify_biometric_insert(r) ==
  /\ At(r, "verify_biometric", "insert_message")
  /\ Insert(r, verify_biometric_message(request[r]), [ success |-> TRUE ])

\* ---- submit_additional_info
submit_additional_info_set(req) ==
  [ current_step |-> "esign", progress_percentage |-> 90 ]

submit_additional_info_update(r) ==
  /\ At(r, "submit_additional_info", "sleep")
  /\ Update(r, submit_additional_info_set(request[r]))

submit_additional_info_message(req) == get_ai_response("esign")

submit_additional_info_insert(r) ==
  /\ At(r, "submit_additional_info", "insert_message")
  /\ Insert(r, submit_additional_info_message(request[r]), [ success |-> TRUE ])

\* ---- complete_esign
complete_esign_set(req) ==
  [ current_step |-> "completion", progress_percentage |-> 100, status |-> "completed" ]

complete_esign_update(r) ==
  /\ At(r, "complete_esign", "sleep")
  /\ Update(r, complete_esign_set(request[r]))

complete_esign_message(req) == get_ai_response("completion")

complete_esign_insert(r) ==
  /\ At(r, "complete_esign", "insert_message")
  /\ Insert(r, complete_esign_message(request[r]), [ success |-> TRUE ])

\* ---------------------------------------------------------------- specifications
Start(r) ==
  \/ start_onboarding_insert_session(r)
  \/ start_onboarding_insert_message(r)

Transition(r) ==
  \/ verify_phone_update(r)
  \/ verify_phone_insert(r)
  \/ verify_otp_update(r)
  \/ verify_otp_insert(r)
  \/ verify_email_update(r)
  \/ verify_email_insert(r)
  \/ verify_kyc_document_update(r)
  \/ verify_kyc_document_insert(r)
  \/ verify_biometric_update(r)
  \/ verify_biometric_insert(r)
  \/ submit_additional_info_update(r)
  \/ submit_additional_info_insert(r)
  \/ complete_esign_update(r)
  \/ complete_esign_insert(r)

Handle(r) ==
  \/ Respond(r)
  \/ Cancel(r)
  \/ Discard(r)
  \/ Start(r)
  \/ Transition(r)
  \/ get_session(r)
  \/ chat_insert_user_message(r)
  \/ chat_find_session(r)
  \/ chat_insert_ai_message(r)
  \/ get_chat_history(r)

Step(r) == Receive(r) \/ Handle(r)

StepConc(r) == ReceiveConc(r) \/ Handle(r)

\* One request at a time: the client waits for each response before it sends
\* the next request (the use the service is designed for).
Next == Step(1)

Spec == Init /\ [][Next]_vars

\* Any number of requests up to NumReq in flight, interleaving at every await.
NextConc == \E r \in Req : StepConc(r)

SpecConc == Init /\ [][NextConc]_vars


\* ---------------------------------------------------------------- clients
ExistingIds == { onboarding_sessions[i].id : i \in 1..Len(onboarding_sessions) }

ValidPan == CHOOSE n \in PanNumbers : Len(n) = 10

\* The requests the handlers accept (mock draw permitting) for session id.
ValidRequests(id) ==
  { VerificationRequest("verify_phone", id, p, None, None, None) : p \in Phones }
  \cup { VerificationRequest("verify_email", id, None, e, None, None) : e \in Emails }
  \cup { VerificationRequest("verify_otp", id, None, None, "123456", "phone"),
         VerificationRequest("verify_otp", id, None, None, "654321", "email"),
         KYCDocumentRequest(id, "pan", ValidPan),
         KYCDocumentRequest(id, "aadhaar", << >>),
         KYCDocumentRequest(id, "digilocker", << >>) }
  \cup { [ op |-> o, session_id |-> id ] :
           o \in { "verify_biometric", "submit_additional_info", "complete_esign" } }

\* A client that sends only requests the handlers accept, in any order.
ClientRequests ==
  { [ op |-> "start_onboarding" ] }
  \cup { [ op |-> o, session_id |-> id ] :
           o \in { "get_session", "get_chat_history" }, id \in ClientIds }
  \cup { [ op |-> "chat", message |-> ChatMessage(id, t, "user") ] :
           id \in ClientIds, t \in UserTexts }
  \cup UNION { ValidRequests(id) : id \in ExistingIds }

ReceiveClient(r) == Accept(r, ClientRequests, MaxClientSessions, MaxClientChat)

\* The client repeats the transition call that has just succeeded, with the
\* same body; "resent" marks the repetition and no handler reads it.
Resend(r) ==
  /\ pc[r] = "done"
  /\ request[r].op \in TransitionOps
  /\ response[r].body.success
  /\ Len(chat_messages) + 1 <= MaxClientChat
  /\ pc' = [ pc EXCEPT ![r] = FirstAwait(request[r]) ]
  /\ request' = [ request EXCEPT ![r] =
                    [ f \in DOMAIN @ \cup { "resent" } |->
                        IF f = "resent" THEN TRUE ELSE @[f] ] ]
  /\ entry' = [ entry EXCEPT ![r] =
                  [ onboarding_sessions |-> onboarding_sessions,
                    chat_messages |-> chat_messages ] ]
  /\ response' = [ response EXCEPT ![r] = NoResponse ]
  /\ UNCHANGED << db, local >>

StepClient(r) == ReceiveClient(r) \/ Resend(r) \/ Handle(r)

NextClient == StepClient(1)

SpecClient == Init /\ [][NextClient]_vars

\* ---- a client that follows the flow
\* The valid submission for a step, as the prompts of get_ai_response ask for.
NextRequest(id, step) ==
  CASE step = "welcome" ->
         VerificationRequest("verify_phone", id, CHOOSE p \in Phones : TRUE, None, None, None)
    [] step = "phone_otp_verification" ->
         VerificationRequest("verify_otp", id, None, None, "123456", "phone")
    [] step = "email_verification" ->
         VerificationRequest("verify_email", id, None, CHOOSE e \in Emails : TRUE, None, None)
    [] step = "email_otp_verification" ->
         VerificationRequest("verify_otp", id, None, None, "654321", "email")
    [] step = "pan_verification" -> KYCDocumentRequest(id, "pan", ValidPan)
    [] step = "kyc_document" -> KYCDocumentRequest(id, "aadhaar", << >>)
    [] step = "face_verification" -> [ op |-> "verify_biometric", session_id |-> id ]
    [] step = "additional_info" -> [ op |-> "submit_additional_info", session_id |-> id ]
    [] step = "esign" -> [ op |-> "complete_esign", session_id |-> id ]

\* OTP and document submissions the handlers reject whatever the draw.
InvalidRequests(id) ==
  { VerificationRequest("verify_otp", id, None, None, "654321", "phone"),
    VerificationRequest("verify_otp", id, None, None, "123456", "email") }
  \cup { VerificationRequest("verify_otp", id, None, None, o, "sms") : o \in Otps }
  \cup { KYCDocumentRequest(id, "pan", n) : n \in PanNumbers \ { ValidPan } }
  \cup { KYCDocumentRequest(id, "passport", << >>) }

\* A session that follows the flow gets one agent message per step it enters,
\* and no handler ever sets "phone_verification".
MaxLiveChat == MaxLiveSessions * (Len(Steps) - 1)

\* The client onboards one customer after the other.
ClientStart(r) ==
  /\ \A i \in 1..Len(onboarding_sessions) :
       onboarding_sessions[i].current_step = "completion"
  /\ Accept(r, { [ op |-> "start_onboarding" ] }, MaxLiveSessions, MaxLiveChat)

SubmitValid(r) ==
  \E i \in 1..Len(onboarding_sessions) :
    LET session == onboarding_sessions[i]
    IN  /\ session.current_step # "completion"
        /\ Accept(r, { NextRequest(session.id, session.current_step) },
                  MaxLiveSessions, MaxLiveChat)

SubmitInvalid(r) ==
  \E i \in 1..Len(onboarding_sessions) :
    LET session == onboarding_sessions[i]
    IN  /\ session.current_step # "completion"
        /\ Accept(r, InvalidRequests(session.id), MaxLiveSessions, MaxLiveChat)

\* The mock draw of verify_kyc_document comes out True.
DrawAccepts(r) == verify_kyc_document_update(r) /\ pc'[r] = "insert_message"

NextLive ==
  \/ ClientStart(1)
  \/ SubmitValid(1)
  \/ SubmitInvalid(1)
  \/ Respond(1)
  \/ Start(1)
  \/ Transition(1)

\* The event loop runs every handler that can run, the client keeps sending
\* the valid submission, and the draw does not fail forever.
SpecLive ==
  /\ Init
  /\ [][NextLive]_vars
  /\ WF_vars(ClientStart(1) \/ Respond(1) \/ Start(1) \/ Transition(1))
  /\ SF_vars(SubmitValid(1))
  /\ SF_vars(DrawAccepts(1))

\* ---- a session with a long chat
\* chat_messages after start_onboarding and k chat calls for session 1, all
\* stamped by the server: the welcome, then k times the user's text and the
\* agent's answer.
ChatLog(k) ==
  [ i \in 1..(2 * k + 1) |->
      IF i % 2 = 0
      THEN ChatMessageAt(1, CHOOSE t \in UserTexts : TRUE, "user", i)
      ELSE ChatMessageAt(1, get_ai_response("welcome"), "agent", i) ]

\* Chat calls that leave the session just below and just above HistoryLimit.
HistoryChats == { HistoryLimit \div 2 - 1, HistoryLimit \div 2 }

InitHistory ==
  /\ onboarding_sessions = << OnboardingSession(1) >>
  /\ \E k \in HistoryChats : chat_messages = ChatLog(k)
  /\ pc = [ r \in Req |-> "idle" ]
  /\ request = [ r \in Req |-> NoRequest ]
  /\ local = [ r \in Req |-> NoLocal ]
  /\ entry = [ r \in Req |-> NoEntry ]
  /\ response = [ r \in Req |-> NoResponse ]

\* Timestamps a client may put in the body of POST /chat: one before every
\* server time, one after.
ClientTimestamps == { 0, 2 * HistoryLimit + MaxHistoryExtra }

HistoryRequests ==
  { [ op |-> "get_chat_history", session_id |-> id ] : id \in ExistingIds }
  \cup { [ op |-> "chat", message |-> ChatMessage(id, t, "user") ] :
           id \in ExistingIds, t \in UserTexts }
  \cup { [ op |-> "chat", message |-> ChatMessageAt(id, t, "user", ts) ] :
           id \in ExistingIds, t \in UserTexts, ts \in ClientTimestamps }
  \cup { VerificationRequest("verify_phone", id, p, None, None, None) :
           id \in ExistingIds, p \in Phones }

ReceiveHistory(r) ==
  Accept(r, HistoryRequests, Len(onboarding_sessions), HistoryLimit + 1 + MaxHistoryExtra)

NextHistory ==
  \/ ReceiveHistory(1)
  \/ Respond(1)
  \/ chat_insert_user_message(1)
  \/ chat_find_session(1)
  \/ chat_insert_ai_message(1)
  \/ get_chat_history(1)
  \/ verify_phone_update(1)
  \/ verify_phone_insert(1)

SpecHistory == InitHistory /\ [][NextHistory]_vars

\* ================================================================ properties
SessionExists(id) == find_one(onboarding_sessions, id) # << >>

Session(id) == find_one(onboarding_sessions, id)[1]

\* Request r is a call of a transition endpoint that has just returned.
Returned(r) == pc[r] = "done" /\ request[r].op \in TransitionOps

Succeeded(r) == Returned(r) /\ response[r].body.success

Failed(r) == Returned(r) /\ ~response[r].body.success

\* The documents of one session in a chat collection, without the to_list cap.
MessagesOf(collection, id) == SelectSeq(collection, LAMBDA m : m.session_id = id)

\* ---------------------------------------------------------------- C1
\* C1: whenever a session's current_step changes, the new step is the
\* immediate successor of the old one in the order of Steps.
C1_NoStepSkipped ==
  [][ \A i \in 1..Len(onboarding_sessions) :
        onboarding_sessions'[i].current_step # onboarding_sessions[i].current_step
          => StepIndex(onboarding_sessions'[i].current_step)
               = StepIndex(onboarding_sessions[i].current_step) + 1 ]_vars

\* ---------------------------------------------------------------- C2
\* C2: current_step never changes to a step that precedes a step the session
\* has already held, i.e. the position of current_step in Steps never decreases.
C2_NoStepRevisited ==
  [][ \A i \in 1..Len(onboarding_sessions) :
        StepIndex(onboarding_sessions'[i].current_step)
          >= StepIndex(onboarding_sessions[i].current_step) ]_vars

\* ---------------------------------------------------------------- C3
\* C3: progress_percentage stays within 0..100 and no operation stores a
\* value lower than the one stored before it.
C3_ProgressMonotone ==
  [][ \A i \in 1..Len(onboarding_sessions) :
        /\ onboarding_sessions'[i].progress_percentage \in 0..100
        /\ onboarding_sessions'[i].progress_percentage
             >= onboarding_sessions[i].progress_percentage ]_vars

\* ---------------------------------------------------------------- C4
\* C4: in every reachable state, status is "completed" if and only if
\* current_step is "completion", and otherwise it is "in_progress".
C4_CompletedIffCompletion ==
  \A i \in 1..Len(onboarding_sessions) :
    /\ onboarding_sessions[i].status \in { "in_progress", "completed" }
    /\ onboarding_sessions[i].status = "completed"
         <=> onboarding_sessions[i].current_step = "completion"

\* ---------------------------------------------------------------- C5
\* The table of the claim: the progress stored with each step.
C5_Table ==
  { << "welcome", 0 >>, << "phone_otp_verification", 15 >>,
    << "email_verification", 25 >>, << "email_otp_verification", 30 >>,
    << "pan_verification", 35 >>, << "kyc_document", 45 >>,
    << "face_verification", 60 >>, << "additional_info", 80 >>,
    << "esign", 90 >>, << "completion", 100 >> }

\* C5: in every reachable state, also when requests for the same session
\* interleave, the stored (current_step, progress_percentage) is a row of the table.
C5_ProgressOfStep ==
  \A i \in 1..Len(onboarding_sessions) :
    << onboarding_sessions[i].current_step,
       onboarding_sessions[i].progress_percentage >> \in C5_Table

\* Two different transition calls on the same existing session are both past
\* their update_one and before their insert_one.
C5_Witness ==
  \E r, q \in Req :
    /\ r # q
    /\ pc[r] = "insert_message" /\ pc[q] = "insert_message"
    /\ request[r].op \in TransitionOps /\ request[q].op \in TransitionOps
    /\ request[r].op # request[q].op
    /\ request[r].session_id = request[q].session_id
    /\ SessionExists(request[r].session_id)
    /\ Session(request[r].session_id).current_step # "welcome"

\* ---------------------------------------------------------------- C6
\* C6: when a transition call returns success=false, both collections are as
\* they were when the call arrived: the session's current_step,
\* progress_percentage, status, phone and email are unchanged and no chat
\* message was appended.
C6_FailureChangesNothing ==
  \A r \in Req :
    Failed(r) =>
      /\ onboarding_sessions = entry[r].onboarding_sessions
      /\ chat_messages = entry[r].chat_messages

\* A PAN of ten characters was refused by the mock draw, on a session that
\* has already moved on from "welcome".
C6_Witness ==
  \E r \in Req :
    /\ Failed(r)
    /\ request[r].op = "verify_kyc_document"
    /\ request[r].document_type = "pan"
    /\ Len(request[r].pan_number) = 10
    /\ SessionExists(request[r].session_id)
    /\ Session(request[r].session_id).current_step # "welcome"


\* ---------------------------------------------------------------- C7
\* The one document a call has appended to chat_messages, if it appended one.
Appended(r) == chat_messages[Len(chat_messages)]

AppendedOne(r) ==
  /\ Len(chat_messages) = Len(entry[r].chat_messages) + 1
  /\ SubSeq(chat_messages, 1, Len(entry[r].chat_messages)) = entry[r].chat_messages

\* C7 as stated: every successful transition appends exactly one agent
\* ChatMessage whose body is exactly the canned prompt of the step the
\* session has moved to, the successful email OTP verification included.
C7_BodyIsCannedPrompt ==
  \A r \in Req :
    Succeeded(r) =>
      /\ AppendedOne(r)
      /\ Appended(r).sender = "agent"
      /\ Appended(r).session_id = request[r].session_id
      /\ SessionExists(request[r].session_id) =>
           Appended(r).message
             = get_ai_response(Session(request[r].session_id).current_step)

IsEmailOtp(req) == req.op = "verify_otp" /\ req.verification_type = "email"

\* C7 amended: every successful transition appends exactly one agent
\* ChatMessage, under the session id of the request; its body is the canned
\* prompt of the step the call has set the session to, except that a
\* successful email OTP verification puts its confirmation sentence in front
\* of that prompt (of pan_verification).
C7_BodyEndsWithCannedPrompt ==
  \A r \in Req :
    Succeeded(r) =>
      /\ AppendedOne(r)
      /\ Appended(r).sender = "agent"
      /\ Appended(r).session_id = request[r].session_id
      /\ SessionExists(request[r].session_id) =>
           LET prompt == get_ai_response(Session(request[r].session_id).current_step)
           IN  Appended(r).message
                 = IF IsEmailOtp(request[r])
                   THEN << "Perfect! Email verified successfully!" >> \o prompt
                   ELSE prompt

\* A successful email OTP verification on an existing session has returned.
C7_Witness ==
  \E r \in Req :
    /\ Succeeded(r)
    /\ IsEmailOtp(request[r])
    /\ SessionExists(request[r].session_id)
    /\ Session(request[r].session_id).current_step = "pan_verification"

\* ---------------------------------------------------------------- C8
\* C8 as stated: the chat history of the session (what get_chat_history
\* returns) is two longer after a successful transition call than before it,
\* and as long as before after a failed one.
C8_HistoryGrowsByTwo ==
  \A r \in Req :
    Returned(r) =>
      Len(find_messages(chat_messages, request[r].session_id, "natural"))
        = Len(find_messages(entry[r].chat_messages, request[r].session_id, "natural"))
            + (IF response[r].body.success THEN 2 ELSE 0)

\* C8 amended: the stored chat messages of the request's session id are one
\* more after a successful transition call than before it, and as many as
\* before after a failed one.
C8_MessagesGrowByOne ==
  \A r \in Req :
    Returned(r) =>
      Len(MessagesOf(chat_messages, request[r].session_id))
        = Len(MessagesOf(entry[r].chat_messages, request[r].session_id))
            + (IF response[r].body.success THEN 1 ELSE 0)

\* A successful transition call has returned on a session that already had
\* the welcome message and one more.
C8_Witness ==
  \E r \in Req :
    /\ Succeeded(r)
    /\ SessionExists(request[r].session_id)
    /\ Len(MessagesOf(entry[r].chat_messages, request[r].session_id)) = 2
    /\ Len(MessagesOf(chat_messages, request[r].session_id)) = 3

\* ---------------------------------------------------------------- C9
\* C9: get_session, chat and every transition endpoint answer a request that
\* names a session id absent from the store with 404 Not Found.
C9_UnknownSessionIs404 ==
  \A r \in Req :
    /\ pc[r] = "done"
    /\ request[r].op \in { "get_session", "chat" } \cup TransitionOps
    /\ ~SessionExists(SessionIdOf(request[r]))
    => response[r].status_code = 404

\* ---------------------------------------------------------------- C10
\* C10: in every reachable state the session_id of each stored ChatMessage
\* is the id of a session in onboarding_sessions.
C10_MessagesHaveSession ==
  \A i \in 1..Len(chat_messages) : SessionExists(chat_messages[i].session_id)


\* ---------------------------------------------------------------- C11
\* The session a request names, as it was when the call arrived.
EntrySession(r) == find_one(entry[r].onboarding_sessions, SessionIdOf(request[r]))[1]

\* C11: verify_otp with type "phone" returns success=true exactly when the
\* otp is "123456"; it then leaves the session at email_verification with
\* progress 25, and otherwise leaves current_step as it was.
C11_PhoneOtp ==
  \A r \in Req :
    Returned(r) /\ request[r].op = "verify_otp" /\ request[r].verification_type = "phone"
    => /\ response[r].body.success <=> request[r].otp = "123456"
       /\ SessionExists(request[r].session_id) =>
            IF request[r].otp = "123456"
            THEN /\ Session(request[r].session_id).current_step = "email_verification"
                 /\ Session(request[r].session_id).progress_percentage = 25
            ELSE Session(request[r].session_id).current_step = EntrySession(r).current_step

\* The phone OTP was accepted on a session that was waiting for it.
C11_Witness ==
  \E r \in Req :
    /\ Succeeded(r)
    /\ request[r].op = "verify_otp" /\ request[r].verification_type = "phone"
    /\ SessionExists(request[r].session_id)
    /\ EntrySession(r).current_step = "phone_otp_verification"

\* ---------------------------------------------------------------- C12
\* C12: a "pan" submission whose PAN is missing or not 10 characters long
\* returns success=false and leaves the sessions as they were, whatever the
\* mock would have drawn.
C12_BadPanNeverAdvances ==
  \A r \in Req :
    /\ Returned(r)
    /\ request[r].op = "verify_kyc_document"
    /\ request[r].document_type = "pan"
    /\ Len(request[r].pan_number) # 10
    => /\ ~response[r].body.success
       /\ onboarding_sessions = entry[r].onboarding_sessions

\* A PAN of nine characters was refused on a session waiting for its PAN.
C12_Witness ==
  \E r \in Req :
    /\ Failed(r)
    /\ request[r].op = "verify_kyc_document"
    /\ request[r].document_type = "pan"
    /\ Len(request[r].pan_number) = 9
    /\ SessionExists(request[r].session_id)
    /\ Session(request[r].session_id).current_step = "pan_verification"


\* ---------------------------------------------------------------- C13
\* C13: verify_biometric never returns success=false, whatever score in
\* 85..98 is drawn, and leaves an existing session at additional_info with
\* progress 80.
C13_BiometricNeverFails ==
  \A r \in Req :
    Returned(r) /\ request[r].op = "verify_biometric"
    => /\ response[r].body.success
       /\ SessionExists(request[r].session_id) =>
            /\ Session(request[r].session_id).current_step = "additional_info"
            /\ Session(request[r].session_id).progress_percentage = 80

\* A biometric submission has returned for a session waiting for it.
C13_Witness ==
  \E r \in Req :
    /\ Returned(r) /\ request[r].op = "verify_biometric"
    /\ SessionExists(request[r].session_id)
    /\ EntrySession(r).current_step = "face_verification"

\* ---------------------------------------------------------------- C14
\* C14: when start_onboarding returns, the sessions are those of before plus
\* one new session (a new id, current_step "welcome", progress 0, status
\* in_progress), and the chat messages are those of before plus one, which is
\* the only message of the new session: an agent message with the welcome text.
C14_StartOnboarding ==
  \A r \in Req :
    pc[r] = "done" /\ request[r].op = "start_onboarding"
    => LET id == response[r].body.session_id
           n == Len(entry[r].onboarding_sessions)
           m == Len(entry[r].chat_messages)
       IN  /\ Len(onboarding_sessions) = n + 1
           /\ SubSeq(onboarding_sessions, 1, n) = entry[r].onboarding_sessions
           /\ \A i \in 1..n : onboarding_sessions[i].id # id
           /\ onboarding_sessions[n + 1].id = id
           /\ onboarding_sessions[n + 1].current_step = "welcome"
           /\ onboarding_sessions[n + 1].progress_percentage = 0
           /\ onboarding_sessions[n + 1].status = "in_progress"
           /\ Len(chat_messages) = m + 1
           /\ SubSeq(chat_messages, 1, m) = entry[r].chat_messages
           /\ Len(MessagesOf(chat_messages, id)) = 1
           /\ chat_messages[m + 1].session_id = id
           /\ chat_messages[m + 1].sender = "agent"
           /\ chat_messages[m + 1].message = << "Hi there! I'm Boardy" >>
           /\ response[r].body.message = << "Hi there! I'm Boardy" >>

\* start_onboarding has returned while another session, already past
\* "welcome" and with two chat messages, is in the store.
C14_Witness ==
  \E r \in Req :
    /\ pc[r] = "done" /\ request[r].op = "start_onboarding"
    /\ \E i \in 1..Len(entry[r].onboarding_sessions) :
         /\ entry[r].onboarding_sessions[i].current_step # "welcome"
         /\ Len(MessagesOf(entry[r].chat_messages, entry[r].onboarding_sessions[i].id)) = 2


\* ---------------------------------------------------------------- C15
\* C15: when a transition handler is cancelled in its simulated-latency wait,
\* both collections are as they were when the call arrived: the handler wrote
\* nothing before the wait and nothing during it.
C15_AbandonedWaitWritesNothing ==
  \A r \in Req :
    pc[r] = "cancelled" =>
      /\ request[r].op \in TransitionOps
      /\ onboarding_sessions = entry[r].onboarding_sessions
      /\ chat_messages = entry[r].chat_messages

\* A verify_phone call was cancelled in its wait, on a session that earlier
\* calls have already written to.
C15_Witness ==
  \E r \in Req :
    /\ pc[r] = "cancelled"
    /\ request[r].op = "verify_phone"
    /\ SessionExists(request[r].session_id)
    /\ Session(request[r].session_id).current_step # "welcome"
    /\ Session(request[r].session_id).customer_phone = None


\* C16: failed OTP or document submissions never disable a transition: a
\* client that keeps sending the valid submission of the current step, under a
\* draw that does not fail forever, eventually has its session at
\* current_step "completion" with status "completed"; and a valid submission
\* that does not depend on the draw succeeds whatever was rejected before.
C16_Completed ==
  \E i \in 1..Len(onboarding_sessions) :
    /\ onboarding_sessions[i].current_step = "completion"
    /\ onboarding_sessions[i].status = "completed"

C16_ValidAccepted ==
  \A r \in Req :
    ( /\ Returned(r)
      /\ request[r].op \in TransitionOps \ { "verify_kyc_document" }
      /\ request[r] \in ValidRequests(request[r].session_id) )
    => response[r].body.success

C16_SessionCompleted(id) ==
  /\ SessionExists(id)
  /\ Session(id).current_step = "completion"
  /\ Session(id).status = "completed"

C16_ValidInputCompletes ==
  /\ []C16_ValidAccepted
  /\ <>C16_Completed
  /\ \A id \in 1..MaxLiveSessions : SessionExists(id) ~> C16_SessionCompleted(id)

C16_Witness ==
  /\ C16_Completed
  /\ Succeeded(1)
  /\ request[1].op = "complete_esign"
  /\ Len(MessagesOf(chat_messages, request[1].session_id)) = Len(Steps) - 1


\* ---------------------------------------------------------------- C17
\* C17: when a transition call that succeeded is repeated with the same input,
\* every session has after the second call the fields it had after the first
\* (current_step, progress_percentage, status, phone, email); the second call
\* appends one more agent message when it succeeds and nothing otherwise.
Repeated(r) == Returned(r) /\ "resent" \in DOMAIN request[r]

C17_RepeatKeepsSession ==
  \A r \in Req :
    Repeated(r) =>
      /\ onboarding_sessions = entry[r].onboarding_sessions
      /\ chat_messages =
           IF response[r].body.success
           THEN Append(entry[r].chat_messages, chat_messages[Len(chat_messages)])
           ELSE entry[r].chat_messages
      /\ response[r].body.success =>
           /\ chat_messages[Len(chat_messages)].sender = "agent"
           /\ chat_messages[Len(chat_messages)].session_id = request[r].session_id

C17_Witness ==
  /\ Repeated(1)
  /\ response[1].body.success
  /\ request[1].op \in { "verify_phone", "verify_email" }
  /\ SessionExists(request[1].session_id)
  /\ Session(request[1].session_id).progress_percentage > 0


\* ---------------------------------------------------------------- C18
\* C18: a session whose status is "completed" has status "completed" after
\* every step of every operation, transition calls after complete_esign
\* included.
C18_CompletedStays ==
  [][ \A i \in 1..Len(onboarding_sessions) :
        onboarding_sessions[i].status = "completed" =>
          /\ i <= Len(onboarding_sessions')
          /\ onboarding_sessions'[i].id = onboarding_sessions[i].id
          /\ onboarding_sessions'[i].status = "completed" ]_vars

\* A transition call made after complete_esign has moved the completed session.
C18_Witness ==
  /\ Succeeded(1)
  /\ request[1].op # "complete_esign"
  /\ SessionExists(request[1].session_id)
  /\ EntrySession(1).status = "completed"
  /\ Session(request[1].session_id).status = "completed"
  /\ Session(request[1].session_id).current_step # "completion"


\* ---------------------------------------------------------------- C19
\* C19: a chat call leaves every session as it was. For an existing session
\* it appends the user's message and then one agent message whose body is
\* the canned prompt of the session's current step, and nothing else; for an
\* unknown session id it answers 404 and has appended the user's message.
ChatReturned(r) == pc[r] = "done" /\ request[r].op = "chat"

C19_ChatKeepsSession ==
  \A r \in Req :
    ChatReturned(r) =>
      LET id == request[r].message.session_id
          n == Len(entry[r].chat_messages)
      IN  /\ onboarding_sessions = entry[r].onboarding_sessions
          /\ IF SessionExists(id)
             THEN /\ response[r].status_code = 200
                  /\ Len(chat_messages) = n + 2
                  /\ SubSeq(chat_messages, 1, n) = entry[r].chat_messages
                  /\ chat_messages[n + 1] = request[r].message
                  /\ chat_messages[n + 2].session_id = id
                  /\ chat_messages[n + 2].sender = "agent"
                  /\ chat_messages[n + 2].message =
                       get_ai_response(Session(id).current_step)
             ELSE /\ response[r].status_code = 404
                  /\ chat_messages = Append(entry[r].chat_messages, request[r].message)

C19_Witness ==
  /\ ChatReturned(1)
  /\ SessionExists(request[1].message.session_id)
  /\ Session(request[1].message.session_id).current_step # "welcome"


\* ---------------------------------------------------------------- C20
\* C20: get_chat_history returns at most HistoryLimit messages, in ascending
\* timestamp order, and they are the messages of the session with the
\* smallest timestamps; once the session holds more than HistoryLimit
\* messages, the messages stored after that are not returned and the length
\* of what is returned stays at HistoryLimit.
HistoryReturned(r) == pc[r] = "done" /\ request[r].op = "get_chat_history"

Range(seq) == { seq[i] : i \in 1..Len(seq) }

C20_OldestFirst(r) ==
  LET all == MessagesOf(chat_messages, request[r].session_id)
      result == response[r].body
  IN  /\ Len(result) <= HistoryLimit
      /\ Len(result) = IF Len(all) <= HistoryLimit THEN Len(all) ELSE HistoryLimit
      /\ Range(result) \subseteq Range(all)
      /\ \A k \in 1..(Len(result) - 1) : result[k].timestamp <= result[k + 1].timestamp
      /\ \A m \in Range(all) \ Range(result) :
           \A k \in 1..Len(result) : result[k].timestamp <= m.timestamp

C20_LaterNotReturned(r) ==
  LET all == MessagesOf(chat_messages, request[r].session_id)
      result == response[r].body
  IN  \A i \in (HistoryLimit + 2)..Len(all) : all[i] \notin Range(result)

C20_HistoryKeepsOldest ==
  \A r \in Req :
    HistoryReturned(r) => C20_OldestFirst(r) /\ C20_LaterNotReturned(r)

====
